---- MODULE Spec2Model ----
(***************************************************************************)
(* Model of the demo-fastify session/auth subsystem: the credential store, *)
(* the session codec (jsonwebtoken), the auth gate (getCurrentUser and     *)
(* requireAuth on top of @fastify/cookie) and the login, logout, me and    *)
(* protected route handlers of src/server.ts.                              *)
(*                                                                         *)
(* Strings that the code treats as opaque (tokens, cookie values) are      *)
(* modelled as records that keep exactly the structure the libraries look  *)
(* at: what was signed, with which key, in which encoding, and whether a   *)
(* byte has been altered since.                                            *)
(***************************************************************************)
EXTENDS Integers, Sequences, FiniteSets, TLC

\* ------------------------------------------------------------------ bounds
\* The clock advances in half-day steps, at most MaxTicks of them.
MaxTicks == 2

\* ------------------------------------------------------- program constants
\* jwt.sign(..., { expiresIn: "1d" }): one day, in seconds.
ExpiresIn == 86400
\* reply.setCookie(..., { maxAge: 24 * 60 * 60 * 1000 }), handed to the
\* cookie layer, which reads Max-Age in seconds.
LoginCookieMaxAge == 24 * 60 * 60 * 1000
\* bcrypt.hashSync(plain, 10)
BcryptRounds == 10

TickSeconds == ExpiresIn \div 2

\* JavaScript null (a record, so that it compares unequal to every user).
Null == [kind |-> "null"]
\* An absent cookie / an absent token (JavaScript undefined).
NoCookie == [kind |-> "none"]

\* --------------------------------------------------------------- bcryptjs
\* hashSync keeps the plaintext recoverable only through compareSync.
HashSync(plain, rounds) == [alg |-> "bcrypt", rounds |-> rounds, plain |-> plain]

CompareSync(plain, hash) == hash.plain = plain

\* ------------------------------------------------------- credential store
users ==
  << [ id |-> "user-1", email |-> "admin@example.com",
       password |-> HashSync("password123", BcryptRounds),
       adminScopes |-> <<"autojoin">>, role |-> "admin",
       groups |-> << [type |-> "team", id |-> "team-1", name |-> "Engineering"],
                     [type |-> "organization", id |-> "org-1", name |-> "Acme Corp"] >> ],
     [ id |-> "user-2", email |-> "user@example.com",
       password |-> HashSync("userpass", BcryptRounds),
       adminScopes |-> <<>>, role |-> "user",
       groups |-> << [type |-> "team", id |-> "team-1", name |-> "Engineering"] >> ] >>

\* The DemoUser projection built at auth.ts:199-205 and auth.ts:246-252.
DemoUser(u) ==
  [ id |-> u.id, email |-> u.email, adminScopes |-> u.adminScopes,
    role |-> u.role, groups |-> u.groups ]

\* Array.prototype.find: index of the first record with that email, 0 if none.
FindByEmail(email) ==
  LET hits == { i \in DOMAIN users : users[i].email = email }
  IN IF hits = {} THEN 0 ELSE CHOOSE i \in hits : \A j \in hits : i <= j

authenticateUser_NoCompare(email, password) ==
  LET i == FindByEmail(email)
  IN IF i = 0 THEN Null ELSE DemoUser(users[i])

authenticateUser(email, password) ==
  LET i == FindByEmail(email)
  IN IF i = 0 \/ ~CompareSync(password, users[i].password)
     THEN Null
     ELSE DemoUser(users[i])

getDemoUsers == [ i \in DOMAIN users |-> DemoUser(users[i]) ]

\* ------------------------------------------------------------------ state
VARIABLES
  JWT_SECRET,     \* auth.ts:144, fixed at start-up from the environment
  COOKIE_SECRET,  \* server.ts:78, fixed at start-up from the environment
  now,            \* wall clock, seconds
  jar,            \* the client's cookie jar entry for "session"
  captured,       \* the last token a login handed out, kept by the client
  prev,           \* outcome of the exchange before the last one
  last,           \* the last request/response exchange
  call            \* the last direct call of an exported auth.ts function

vars == << JWT_SECRET, COOKIE_SECRET, now, jar, captured, prev, last, call >>

\* ----------------------------------------------------------- jsonwebtoken
\* jwt.sign(payload, secret, { expiresIn }): HS256 over header.payload.
\* urlsafe tells whether the digest's base64 text has no '+' or '/', that
\* is whether its base64url text (JWT) and its base64 text (cookie signer)
\* are the same characters; it is a property of the digest.
JwtSign(payload, secret, expiresIn, urlsafe) ==
  [ kind |-> "jwt",
    payload |-> payload @@ [iat |-> now, exp |-> now + expiresIn],
    key |-> secret, intact |-> TRUE, urlsafe |-> urlsafe ]

\* jwt.verify(token, secret), synchronous form: returns the payload or throws.
JwtVerify(token, secret) ==
  IF token.kind # "jwt"
  THEN [threw |-> TRUE, error |-> "JsonWebTokenError: jwt malformed"]
  ELSE IF ~token.intact \/ token.key # secret
  THEN [threw |-> TRUE, error |-> "JsonWebTokenError: invalid signature"]
  ELSE IF "exp" \in DOMAIN token.payload /\ now >= token.payload.exp
  THEN [threw |-> TRUE, error |-> "TokenExpiredError: jwt expired"]
  ELSE [threw |-> FALSE, payload |-> token.payload]

\* ---------------------------------------------------------- session codec
createSessionJWT(user, urlsafe) ==
  JwtSign([ userId |-> user.id, email |-> user.email,
            adminScopes |-> user.adminScopes, role |-> user.role,
            groups |-> user.groups ],
          JWT_SECRET, ExpiresIn, urlsafe)

\* The createSessionJWT of auth.ts:38-49: no adminScopes claim.
createSessionJWT_legacy(user, urlsafe) ==
  JwtSign([ userId |-> user.id, email |-> user.email,
            role |-> user.role, groups |-> user.groups ],
          JWT_SECRET, ExpiresIn, urlsafe)

Decoded(d) ==
  [ id |-> d.userId, email |-> d.email,
    adminScopes |-> IF "adminScopes" \in DOMAIN d THEN d.adminScopes ELSE <<>>,
    role |-> d.role, groups |-> d.groups ]

verifySessionJWT_DropScopes(token) ==
  LET r == JwtVerify(token, JWT_SECRET)
  IN IF r.threw THEN Null
     ELSE [ Decoded(r.payload) EXCEPT !.adminScopes = <<>> ]

verifySessionJWT_DecodeOnly(token) ==
  IF token.kind # "jwt" THEN Null ELSE Decoded(token.payload)

verifySessionJWT(token) ==
  LET r == JwtVerify(token, JWT_SECRET)
  IN IF r.threw THEN Null ELSE Decoded(r.payload)

\* --------------------------------------------------------- @fastify/cookie
\* signer.sign: value + "." + base64(HMAC(secret, value)).
signCookie(value, secret) == [kind |-> "signed", value |-> value, key |-> secret]

\* request.unsignCookie: split at the last ".", recompute the HMAC of the
\* left part with the cookie secret and compare with the right part.
\* A bare JWT "h.p.s" splits into "h.p" and the JWT signature s.
unsignCookie(v) ==
  IF v.kind = "signed" /\ v.key = COOKIE_SECRET
  THEN [valid |-> TRUE, value |-> v.value]
  ELSE IF v.kind = "jwt" /\ v.intact /\ v.urlsafe /\ v.key = COOKIE_SECRET
  THEN [valid |-> TRUE, value |-> [kind |-> "jwt-without-signature", payload |-> v.payload]]
  ELSE [valid |-> FALSE, value |-> Null]

\* JavaScript truthiness of a cookie value: undefined and "" are falsy.
Truthy(v) == v.kind \notin {"none", "empty"}

\* -------------------------------------------------------------- auth gate
\* request.signedCookies is read through optional chaining; request.cookies
\* is filled by the cookie plugin from the Cookie header.
getCurrentUser(request) ==
  LET t0 == IF "signedCookies" \in DOMAIN request
            THEN request.signedCookies.session ELSE NoCookie
      t1 == IF ~Truthy(t0) /\ Truthy(request.cookies.session)
            THEN LET unsignResult == unsignCookie(request.cookies.session)
                 IN IF unsignResult.valid THEN unsignResult.value ELSE t0
            ELSE t0
  IN IF ~Truthy(t1) THEN Null ELSE verifySessionJWT(t1)

\* requireAuth: either short-circuits with a reply, or attaches the user
\* to the request and lets the route handler run.
requireAuth(request) ==
  LET user == getCurrentUser(request)
  IN IF user = Null
     THEN [ sent |-> TRUE, request |-> request,
            reply |-> [status |-> 401, body |-> [error |-> "Authentication required"]] ]
     ELSE [ sent |-> FALSE, request |-> request @@ [user |-> user],
            reply |-> [status |-> 200, body |-> Null] ]

\* ------------------------------------------------------- reply decorators
NoSetCookie == [kind |-> "nothing"]

\* reply.setCookie: the value is signed only when opts.signed is set.
setCookie(name, value, opts) ==
  [ kind |-> "set", name |-> name,
    value |-> IF "signed" \in DOMAIN opts /\ opts.signed
              THEN signCookie(value, COOKIE_SECRET) ELSE value,
    opts |-> opts ]

clearCookie_Noop(name) == NoSetCookie

\* reply.clearCookie: an empty value that expired at the epoch.
clearCookie(name) ==
  [ kind |-> "set", name |-> name, value |-> [kind |-> "empty"],
    opts |-> [expires |-> -1] ]

\* ---------------------------------------------------------- route handlers
\* Each handler yields the reply and what it did on the way: whether the
\* credential store was consulted, the token it signed, whether the route
\* function ran, and the user attached to the request.
Missing(body, field) == field \notin DOMAIN body \/ body[field] = ""

LoginRoute_NoFieldCheck(body, urlsafe) ==
  LET email == IF "email" \in DOMAIN body THEN body.email ELSE ""
      password == IF "password" \in DOMAIN body THEN body.password ELSE ""
      user == authenticateUser(email, password)
  IN IF user = Null
     THEN [ status |-> 401, body |-> [error |-> "Invalid credentials"],
            setCookie |-> NoSetCookie, consulted |-> TRUE, signed |-> NoCookie ]
     ELSE LET sessionToken == createSessionJWT(user, urlsafe)
          IN [ status |-> 200,
               body |-> [ success |-> TRUE,
                          user |-> [ id |-> user.id, email |-> user.email,
                                     role |-> user.role, groups |-> user.groups ] ],
               setCookie |-> setCookie("session", sessionToken,
                               [ httpOnly |-> TRUE, sameSite |-> "lax",
                                 maxAge |-> LoginCookieMaxAge ]),
               consulted |-> TRUE, signed |-> sessionToken ]

LoginRoute_LeakyMessage(body, urlsafe) ==
  IF Missing(body, "email") \/ Missing(body, "password")
  THEN [ status |-> 400, body |-> [error |-> "Email and password required"],
         setCookie |-> NoSetCookie, consulted |-> FALSE, signed |-> NoCookie ]
  ELSE LET user == authenticateUser(body.email, body.password)
       IN IF user = Null
          THEN [ status |-> IF FindByEmail(body.email) = 0 THEN 404 ELSE 401,
                 body |-> [error |-> "Invalid credentials"],
                 setCookie |-> NoSetCookie, consulted |-> TRUE, signed |-> NoCookie ]
          ELSE LET sessionToken == createSessionJWT(user, urlsafe)
               IN [ status |-> 200,
                    body |-> [ success |-> TRUE,
                               user |-> [ id |-> user.id, email |-> user.email,
                                          role |-> user.role, groups |-> user.groups ] ],
                    setCookie |-> setCookie("session", sessionToken,
                                    [ httpOnly |-> TRUE, sameSite |-> "lax",
                                      maxAge |-> LoginCookieMaxAge ]),
                    consulted |-> TRUE, signed |-> sessionToken ]

\* POST /api/auth/login
LoginRoute(body, urlsafe) ==
  IF Missing(body, "email") \/ Missing(body, "password")
  THEN [ status |-> 400, body |-> [error |-> "Email and password required"],
         setCookie |-> NoSetCookie, consulted |-> FALSE, signed |-> NoCookie ]
  ELSE LET user == authenticateUser(body.email, body.password)
       IN IF user = Null
          THEN [ status |-> 401, body |-> [error |-> "Invalid credentials"],
                 setCookie |-> NoSetCookie, consulted |-> TRUE, signed |-> NoCookie ]
          ELSE LET sessionToken == createSessionJWT(user, urlsafe)
               IN [ status |-> 200,
                    body |-> [ success |-> TRUE,
                               user |-> [ id |-> user.id, email |-> user.email,
                                          role |-> user.role, groups |-> user.groups ] ],
                    setCookie |-> setCookie("session", sessionToken,
                                    [ httpOnly |-> TRUE, sameSite |-> "lax",
                                      maxAge |-> LoginCookieMaxAge ]),
                    consulted |-> TRUE, signed |-> sessionToken ]

\* POST /api/auth/logout
LogoutRoute ==
  [ status |-> 200, body |-> [success |-> TRUE], setCookie |-> clearCookie("session") ]

\* GET /api/auth/me
MeRoute(request) ==
  LET user == getCurrentUser(request)
  IN IF user = Null
     THEN [status |-> 401, body |-> [error |-> "Not authenticated"]]
     ELSE [status |-> 200, body |-> [user |-> user]]

\* GET /api/demo/protected, preHandler: requireAuth
ProtectedRoute(request) ==
  LET pre == requireAuth(request)
  IN IF pre.sent
     THEN [ status |-> pre.reply.status, body |-> pre.reply.body,
            handlerRan |-> FALSE, user |-> Null ]
     ELSE [ status |-> 200,
            body |-> [ message |-> "This is a protected route!",
                       user |-> pre.request.user, timestamp |-> now ],
            handlerRan |-> TRUE, user |-> pre.request.user ]

\* configureVortex({ authenticateUser }): the callback the Vortex plugin
\* calls with the request to learn the caller's identity.
vortexAuthenticateUser(request) ==
  LET user == getCurrentUser(request)
  IN IF user = Null
     THEN Null
     ELSE [ userId |-> user.id,
            identifiers |-> << [type |-> "email", value |-> user.email] >>,
            groups |-> user.groups,
            role |-> user.role ]

\* ----------------------------------------------------------------- client
\* What the browser does with a Set-Cookie header: an entry whose Expires is
\* in the past is removed, otherwise it is stored for Max-Age seconds.
ApplySetCookie(j, sc) ==
  IF sc.kind = "nothing" THEN j
  ELSE IF "expires" \in DOMAIN sc.opts /\ sc.opts.expires <= now THEN NoCookie
  ELSE [kind |-> "cookie", value |-> sc.value, expiresAt |-> now + sc.opts.maxAge]

\* The Cookie header a browser sends from its jar.
BrowserCookie ==
  IF jar.kind = "cookie" /\ now < jar.expiresAt THEN jar.value ELSE NoCookie

\* ----------------------------------------------------------------- inputs
Emails == {"", "admin@example.com", "user@example.com", "Admin@example.com",
           "nobody@example.com"}
Passwords == {"", "password123", "userpass", "wrong"}

\* Login bodies the HTTP scenarios use: both seeded users with their own
\* password, a known email with another user's or an unknown password, an
\* email differing only in case, an unknown email, and empty or absent fields.
LoginBodies ==
  { [email |-> "admin@example.com", password |-> "password123"],
    [email |-> "user@example.com", password |-> "userpass"],
    [email |-> "admin@example.com", password |-> "userpass"],
    [email |-> "user@example.com", password |-> "wrong"],
    [email |-> "Admin@example.com", password |-> "password123"],
    [email |-> "nobody@example.com", password |-> "password123"],
    [email |-> "", password |-> "password123"],
    [email |-> "admin@example.com", password |-> ""],
    [email |-> "admin@example.com"],
    [password |-> "password123"] }

Garbage == [kind |-> "garbage"]
Empty == [kind |-> "empty"]
AttackerKey == "attacker-key"

\* One byte of the token altered after signing.
Tamper(t) == IF t.kind = "jwt" THEN [t EXCEPT !.intact = FALSE] ELSE Garbage

\* A token for the admin claims signed by someone without the server secret.
Forged ==
  [ kind |-> "jwt", key |-> AttackerKey, intact |-> TRUE, urlsafe |-> FALSE,
    payload |-> [ userId |-> "user-1", email |-> "admin@example.com",
                  adminScopes |-> <<"autojoin">>, role |-> "admin",
                  groups |-> <<>>, iat |-> 0, exp |-> (MaxTicks + 1) * TickSeconds ] ]

\* The cookie strings a client may present: what its browser holds, nothing,
\* junk, the captured token as issued, and variations of it.
CookieChoices ==
  LET raw == {BrowserCookie, NoCookie, Empty, Garbage, Forged}
               \cup (IF captured = NoCookie THEN {}
                     ELSE {captured, Tamper(captured)})
  IN raw \cup { signCookie(v, COOKIE_SECRET) : v \in raw \ {NoCookie} }
         \cup { signCookie(v, AttackerKey) : v \in raw \cap {captured} }

Request(cookie) == [cookies |-> [session |-> cookie]]

\* How a login body relates to the credential store (observer's view).
LoginClass(body) ==
  IF Missing(body, "email") \/ Missing(body, "password") THEN "missing"
  ELSE IF FindByEmail(body.email) = 0 THEN "unknown-email"
  ELSE IF ~CompareSync(body.password, users[FindByEmail(body.email)].password)
       THEN "wrong-password"
  ELSE "accepted"

NoBody == [none |-> TRUE]

NoExchange ==
  [ route |-> "none", reqBody |-> NoBody, cookie |-> NoCookie, fromJar |-> FALSE,
    class |-> "-", status |-> 0, body |-> Null, setCookie |-> NoSetCookie,
    consulted |-> FALSE, signed |-> NoCookie, handlerRan |-> FALSE,
    user |-> Null, at |-> 0, jarBefore |-> NoCookie ]

Summary(x) ==
  [ route |-> x.route, class |-> x.class, status |-> x.status,
    body |-> x.body, setCookie |-> x.setCookie,
    hadCookie |-> (x.jarBefore # NoCookie) ]

NoCall ==
  [ fn |-> "none", email |-> "", password |-> "", claims |-> Null,
    token |-> NoCookie, origin |-> "-", result |-> Null, at |-> 0 ]

\* JWT_SECRET and COOKIE_SECRET: the built-in defaults, or one value given
\* to both through the environment.
Environments ==
  { << "demo-secret-key", "demo-cookie-secret" >>, << "env-secret", "env-secret" >> }

\* ------------------------------------------------------------------- Init
Init ==
  /\ \E env \in Environments : JWT_SECRET = env[1] /\ COOKIE_SECRET = env[2]
  /\ now = 0
  /\ jar = NoCookie
  /\ captured = NoCookie
  /\ prev = Summary(NoExchange)
  /\ last = NoExchange
  /\ call = NoCall

\* ---------------------------------------------------------------- actions
Login(reqBody, urlsafe) ==
  LET r == LoginRoute(reqBody, urlsafe)
  IN /\ last' = [ NoExchange EXCEPT
                    !.route = "login", !.reqBody = reqBody,
                    !.cookie = BrowserCookie, !.fromJar = TRUE,
                    !.class = LoginClass(reqBody),
                    !.status = r.status, !.body = r.body,
                    !.setCookie = r.setCookie, !.consulted = r.consulted,
                    !.signed = r.signed, !.handlerRan = TRUE,
                    !.at = now, !.jarBefore = jar ]
     /\ prev' = Summary(last)
     /\ jar' = ApplySetCookie(jar, r.setCookie)
     /\ captured' = IF r.setCookie.kind = "set" THEN r.setCookie.value ELSE captured
     /\ UNCHANGED << JWT_SECRET, COOKIE_SECRET, now, call >>

Logout ==
  LET r == LogoutRoute
  IN /\ last' = [ NoExchange EXCEPT
                    !.route = "logout", !.cookie = BrowserCookie,
                    !.fromJar = TRUE, !.status = r.status, !.body = r.body,
                    !.setCookie = r.setCookie, !.handlerRan = TRUE,
                    !.at = now, !.jarBefore = jar ]
     /\ prev' = Summary(last)
     /\ jar' = ApplySetCookie(jar, r.setCookie)
     /\ UNCHANGED << JWT_SECRET, COOKIE_SECRET, now, captured, call >>

Me(cookie) ==
  LET r == MeRoute(Request(cookie))
  IN /\ last' = [ NoExchange EXCEPT
                    !.route = "me", !.cookie = cookie,
                    !.fromJar = (cookie = BrowserCookie),
                    !.status = r.status, !.body = r.body,
                    !.handlerRan = TRUE, !.at = now, !.jarBefore = jar ]
     /\ prev' = Summary(last)
     /\ UNCHANGED << JWT_SECRET, COOKIE_SECRET, now, jar, captured, call >>

Protected(cookie) ==
  LET r == ProtectedRoute(Request(cookie))
  IN /\ last' = [ NoExchange EXCEPT
                    !.route = "protected", !.cookie = cookie,
                    !.fromJar = (cookie = BrowserCookie),
                    !.status = r.status, !.body = r.body,
                    !.handlerRan = r.handlerRan, !.user = r.user,
                    !.at = now, !.jarBefore = jar ]
     /\ prev' = Summary(last)
     /\ UNCHANGED << JWT_SECRET, COOKIE_SECRET, now, jar, captured, call >>

Tick ==
  /\ now < MaxTicks * TickSeconds
  /\ now' = now + TickSeconds
  /\ UNCHANGED << JWT_SECRET, COOKIE_SECRET, jar, captured, prev, last, call >>

Next ==
  \/ \E b \in LoginBodies :
       \E urlsafe \in (IF LoginClass(b) = "accepted" THEN BOOLEAN ELSE {FALSE}) :
         Login(b, urlsafe)
  \/ Logout
  \/ \E c \in CookieChoices : Me(c)
  \/ \E c \in CookieChoices : Protected(c)
  \/ Tick

Spec == Init /\ [][Next]_vars

\* ------------------------------------------------- direct calls of auth.ts
\* The exported functions called on their own, as a unit test calls them.
ClaimSets ==
  { DemoUser(users[i]) : i \in DOMAIN users }
    \cup { [ id |-> "user-3", email |-> "third@example.com",
             adminScopes |-> <<"autojoin", "billing">>, role |-> "user",
             groups |-> <<>> ] }

Origins == {"fresh", "legacy", "tampered", "foreign-secret", "malformed"}

\* A token string of the given provenance for the given claims.
TokenOf(origin, claims, urlsafe) ==
  CASE origin = "fresh" -> createSessionJWT(claims, urlsafe)
    [] origin = "legacy" -> createSessionJWT_legacy(claims, urlsafe)
    [] origin = "tampered" -> Tamper(createSessionJWT(claims, urlsafe))
    [] origin = "foreign-secret" ->
         [createSessionJWT(claims, urlsafe) EXCEPT !.key = AttackerKey]
    [] OTHER -> Garbage

CallAuthenticateUser(email, password) ==
  /\ call' = [ NoCall EXCEPT !.fn = "authenticateUser", !.email = email,
                 !.password = password,
                 !.result = authenticateUser(email, password), !.at = now ]
  /\ UNCHANGED << JWT_SECRET, COOKIE_SECRET, now, jar, captured, prev, last >>

CallCreateSessionJWT(origin, claims, urlsafe) ==
  /\ call' = [ NoCall EXCEPT !.fn = "createSessionJWT", !.claims = claims,
                 !.origin = origin, !.token = TokenOf(origin, claims, urlsafe),
                 !.at = now ]
  /\ UNCHANGED << JWT_SECRET, COOKIE_SECRET, now, jar, captured, prev, last >>

CallVerifySessionJWT ==
  /\ call.fn \in {"createSessionJWT", "verifySessionJWT"}
  /\ call' = [ call EXCEPT !.fn = "verifySessionJWT",
                 !.result = verifySessionJWT(call.token), !.at = now ]
  /\ UNCHANGED << JWT_SECRET, COOKIE_SECRET, now, jar, captured, prev, last >>

\* The plugin calling the callback for a request whose session cookie is
\* absent, the token at hand as issued, or that token under the cookie
\* signer's signature.
CallbackCookies ==
  {NoCookie, call.token, signCookie(call.token, COOKIE_SECRET)}

CallVortexAuthenticateUser(cookie) ==
  /\ call.fn \in {"createSessionJWT", "verifySessionJWT"}
  /\ call' = [ call EXCEPT !.fn = "vortexAuthenticateUser",
                 !.token = cookie,
                 !.claims = getCurrentUser(Request(cookie)),
                 !.result = vortexAuthenticateUser(Request(cookie)),
                 !.at = now ]
  /\ UNCHANGED << JWT_SECRET, COOKIE_SECRET, now, jar, captured, prev, last >>

NextUnit ==
  \/ \E e \in Emails, p \in Passwords : CallAuthenticateUser(e, p)
  \/ \E c \in CallbackCookies : CallVortexAuthenticateUser(c)
  \/ \E o \in Origins, c \in ClaimSets, urlsafe \in BOOLEAN :
       CallCreateSessionJWT(o, c, urlsafe)
  \/ CallVerifySessionJWT
  \/ Tick

SpecUnit == Init /\ [][NextUnit]_vars

\* ================================================================ claims

\* A cookie value that holds a session token this server signed and that
\* has not expired at time t: the token as login set it, or that token
\* wrapped by the cookie signer.
ValidTokenAt(v, t) ==
  /\ v.kind = "jwt" /\ v.intact /\ v.key = JWT_SECRET
  /\ t < v.payload.exp

HoldsValidToken(c, t) ==
  \/ ValidTokenAt(c, t)
  \/ c.kind = "signed" /\ c.key = COOKIE_SECRET /\ ValidTokenAt(c.value, t)

ClaimFields == {"id", "email", "adminScopes", "role", "groups"}

\* C1: a successful login followed by GET /api/demo/protected that presents
\* the session cookie exactly as the login response set it, before the
\* token expires, is answered 200 with user.id the id of the user that
\* logged in; the same GET with no session cookie is answered 401.
C1_LoginThenProtected ==
  /\ ( /\ last.route = "protected"
       /\ prev.route = "login" /\ prev.status = 200
       /\ last.cookie = prev.setCookie.value
       /\ last.at < last.cookie.payload.exp )
       => ( /\ last.status = 200
            /\ "user" \in DOMAIN last.body
            /\ last.body.user # Null
            /\ last.body.user.id = prev.body.user.id )
  /\ (last.route = "protected" /\ last.cookie = NoCookie) => last.status = 401

\* C2: authenticateUser(email, password) returns a user iff some record of
\* the user list has exactly that email and a stored hash the password
\* matches; the returned id and email are those of such a record; otherwise
\* it returns null.
C2_AuthenticateIffMatch ==
  call.fn = "authenticateUser" =>
    LET matching == { i \in DOMAIN users :
                        /\ users[i].email = call.email
                        /\ CompareSync(call.password, users[i].password) }
    IN /\ (call.result # Null) <=> (matching # {})
       /\ call.result # Null =>
            \E i \in matching : /\ call.result.id = users[i].id
                                /\ call.result.email = users[i].email

C2_Witness ==
  /\ call.fn = "authenticateUser"
  /\ call.email = "user@example.com" /\ call.password = "userpass"
  /\ call.result # Null /\ call.result.id = "user-2"

\* C3: a login with an unknown email and a login with a known email and a
\* wrong password get the same outward response: status 401, the same error
\* body, and no session cookie.
C3_UniformRejection ==
  ( /\ prev.route = "login" /\ last.route = "login"
    /\ {prev.class, last.class} = {"unknown-email", "wrong-password"} )
    => /\ prev.status = 401 /\ last.status = 401
       /\ prev.body = last.body
       /\ prev.setCookie = NoSetCookie /\ last.setCookie = NoSetCookie

C3_Witness ==
  /\ prev.route = "login" /\ prev.class = "unknown-email"
  /\ last.route = "login" /\ last.class = "wrong-password"
  /\ last.status = 401

\* C4: a login that does not succeed sets no cookie and signs no token; with
\* a missing email or password it answers 400 without consulting the
\* credential store, with rejected credentials it answers 401; the client's
\* session cookie stays as it was before the request.
C4_FailedLoginLeavesSession ==
  (last.route = "login" /\ last.class # "accepted") =>
    /\ last.setCookie = NoSetCookie
    /\ last.signed = NoCookie
    /\ jar = last.jarBefore
    /\ last.class = "missing" => (last.status = 400 /\ ~last.consulted)
    /\ last.class \in {"unknown-email", "wrong-password"} => last.status = 401

C4_Witness ==
  /\ last.route = "login" /\ last.class = "missing" /\ last.status = 400
  /\ last.jarBefore # NoCookie /\ jar = last.jarBefore

\* C5: verifySessionJWT applied, before the expiry, to the token that
\* createSessionJWT made from a claim set returns a claim set equal to the
\* input in id, email, role, groups and adminScopes.
C5_SignVerifyRoundTrip ==
  ( /\ call.fn = "verifySessionJWT" /\ call.origin = "fresh"
    /\ call.at < call.token.payload.exp )
    => /\ call.result # Null
       /\ \A f \in ClaimFields : call.result[f] = call.claims[f]

C5_Witness ==
  /\ call.fn = "verifySessionJWT" /\ call.origin = "fresh"
  /\ call.at > call.token.payload.iat
  /\ call.at < call.token.payload.exp
  /\ call.result # Null
  /\ call.result.adminScopes = <<"autojoin">>

\* C6: verifySessionJWT returns a claim set or null for every token string
\* and never an exception; it returns null for a malformed token, a token
\* altered after signing, a token signed with another secret, and a token
\* whose expiry has passed.
C6_VerifyFoldsFailuresToNull ==
  call.fn = "verifySessionJWT" =>
    /\ call.result = Null \/ DOMAIN call.result = ClaimFields
    /\ call.origin \in {"malformed", "tampered", "foreign-secret"}
         => call.result = Null
    /\ (call.origin \in {"fresh", "legacy"} /\ call.at >= call.token.payload.exp)
         => call.result = Null

C6_Witness ==
  /\ call.fn = "verifySessionJWT" /\ call.origin = "fresh"
  /\ call.at >= call.token.payload.exp
  /\ call.result = Null

\* C7: requireAuth lets the request reach the route handler iff the request
\* carries a session cookie holding a valid, non-expired session token, and
\* then the decoded claims are attached to the request; otherwise it answers
\* 401 {error: "Authentication required"}, attaches no user and the handler
\* does not run.
C7_RequireAuthIffValidToken ==
  last.route = "protected" =>
    /\ last.handlerRan <=> HoldsValidToken(last.cookie, last.at)
    /\ last.handlerRan => (last.status = 200 /\ last.user # Null)
    /\ ~last.handlerRan =>
         /\ last.status = 401
         /\ last.body = [error |-> "Authentication required"]
         /\ last.user = Null

C9_TokenSurvivesLogout ==
  ( /\ last.route \in {"me", "protected"}
    /\ prev.route = "logout"
    /\ captured # NoCookie /\ last.cookie = captured
    /\ last.at < captured.payload.exp )
    => /\ last.status = 200
       /\ "user" \in DOMAIN last.body
       /\ last.body.user # Null
       /\ last.body.user.id = captured.payload.userId

\* C10: the max-age a successful login hands to the cookie layer, which reads
\* it in seconds, is one day, 86400, the lifetime of the token it carries.
C10_CookieMaxAgeIsOneDay ==
  (last.route = "login" /\ last.status = 200) =>
    /\ last.setCookie.opts.maxAge = 86400
    /\ last.setCookie.opts.maxAge = last.signed.payload.exp - last.signed.payload.iat

\* C11: the user object of a successful login response holds every public
\* field of the authenticated record (id, email, role, groups and
\* adminScopes), with the values getDemoUsers lists for that user.
C11_LoginResponseHasPublicFields ==
  (last.route = "login" /\ last.status = 200) =>
    \E i \in DOMAIN getDemoUsers :
      /\ getDemoUsers[i].email = last.reqBody.email
      /\ DOMAIN last.body.user = ClaimFields
      /\ last.body.user = getDemoUsers[i]

\* C12: the authenticateUser callback given to the Vortex plugin returns
\* null iff the request has no current user, and otherwise an identity in
\* the simplified format: userId the current user's id, userEmail the
\* current user's email, adminScopes the current user's adminScopes.
C12_VortexIdentityFormat ==
  call.fn = "vortexAuthenticateUser" =>
    /\ (call.result = Null) <=> (call.claims = Null)
    /\ call.result # Null =>
         /\ DOMAIN call.result = {"userId", "userEmail", "adminScopes"}
         /\ call.result.userId = call.claims.id
         /\ call.result.userEmail = call.claims.email
         /\ call.result.adminScopes = call.claims.adminScopes

====
